---- MODULE Spec2Model ----
(***************************************************************************)
(* Model of lntools: the BOLT-8 NoiseState (handshake, transport framing,  *)
(* key rotation) and the BOLT-11 invoice codec (WordCursor, decode,        *)
(* encode).                                                                *)
(*                                                                         *)
(* Cryptographic primitives are external collaborators and are modelled    *)
(* symbolically as free constructors: every value is a tuple whose first   *)
(* element is a tag.  Two symbolic values are equal exactly when the real  *)
(* primitives would (up to collisions) produce equal bytes.                *)
(***************************************************************************)
EXTENDS Integers, Sequences, FiniteSets, TLC

VARIABLES
  ns,        \* [Peers -> NoiseState]: the fields of each peer's NoiseState
  pc,        \* [Peers -> STRING]: how far each peer's caller has come
  net,       \* handshake messages in flight (at most one)
  err,       \* [Peers -> STRING]: the error the last call threw, or "none"
  modified,  \* history: some handshake message was altered in transit
  lastCall,  \* history: the last NoiseState call, its peer and its outcome
  flight,    \* [Peers -> Seq(frame)]: transport frames in flight, by sender
  rx,        \* [Peers -> receiver's position inside the current frame]
  aead,      \* history: [Peers -> number of send-side AEAD operations]
  done,      \* history: [Peers -> last frame completely received]
  calls,     \* history: number of calls made since Init (SpecApi)
  ipc,            \* invoice codec: the next step of encode / decode
  invoice,        \* the Invoice handed to encode
  wire,           \* the invoice string after bech32: [prefix, words]
  wordcursor,     \* decode's WordCursor: [words, position]
  locals,         \* decode's network, value and timestamp
  fields,         \* decode's fields
  unknownFields,  \* decode's unknownFields
  result,         \* the Invoice decode returned
  reencoded,      \* encode(result): [prefix, words]
  sigs,           \* the signatures that exist: [sig, recovery, digest, key]
  iter            \* history: the last iteration of decode's field loop

handshakeVars == <<ns, pc, net, err, modified, lastCall, calls>>
handshakeVars_but_ns == <<pc, net, err, modified, lastCall, calls>>
transportVars == <<flight, rx, aead, done>>
invoiceVars   == <<ipc, invoice, wire, wordcursor, locals, fields, unknownFields,
                   result, reencoded, sigs, iter>>
vars == <<handshakeVars, transportVars, invoiceVars>>

----------------------------------------------------------------------------
(* Symbolic byte strings                                                   *)

Nil   == <<"nil">>          \* Buffer.alloc(0)
Undef == <<"undefined">>    \* a field the constructor declares but never sets
NoNonce == 0 - 1            \* sn / rn before act 3 sets them (undefined)

Peers == {"I", "R"}
Other(p) == IF p = "I" THEN "R" ELSE "I"

\* getPublicKey(priv): the compressed public point of a private scalar
getPublicKey(priv) == <<"pub", priv>>

\* ecdh(pub, priv): commutative in the two private scalars involved
ecdh(pub, priv) == <<"ecdh", {pub[2], priv}>>

\* sha256(Buffer.concat([a, b]))
sha256(a, b) == <<"sha256", a, b>>

\* hkdf(salt, ikm): 64 bytes; slice(0, 32) and slice(32)
hkdf(salt, ikm) ==
  [first32 |-> <<"hkdf", "0..32", salt, ikm>>,
   last32  |-> <<"hkdf", "32..64", salt, ikm>>]

\* ccpEncrypt(k, n, ad, plaintext); n is the counter held in bytes 4..6
ccpEncrypt(k, n, ad, pt) == <<"ct", k, n, ad, pt>>

\* ccpDecrypt(k, n, ad, ciphertext): throws unless key, nonce and
\* associated data are those of the encryption and the bytes are intact
ccpDecrypt(k, n, ad, c) ==
  IF c[1] = "ct" /\ c[2] = k /\ c[3] = n /\ c[4] = ad
  THEN [ok |-> TRUE, pt |-> c[5]]
  ELSE [ok |-> FALSE, pt |-> Nil]

\* byte length of a symbolic value
RECURSIVE ByteLen(_)
ByteLen(t) ==
  CASE t[1] = "nil" -> 0
    [] t[1] = "pub" -> 33
    [] t[1] = "ct"  -> ByteLen(t[5]) + 16
    [] t[1] = "bad" -> ByteLen(t[2])
    [] t[1] = "msg" -> t[2]
    [] t[1] = "u16" -> 2
    [] OTHER        -> 32

\* Buffer.concat([Buffer.alloc(1), a, b]): a handshake message
ActMessage(a, b) == [len |-> 1 + ByteLen(a) + ByteLen(b), v |-> 0, a |-> a, b |-> b]

----------------------------------------------------------------------------
(* NoiseState                                                              *)

protocolName == <<"str", "Noise_XK_secp256k1_ChaChaPoly_SHA256">>
prologue     == <<"str", "lightning">>

\* constructor({ ls, es })
NewNoiseState(ls, es) ==
  [ls |-> ls, lp |-> getPublicKey(ls), es |-> es, ep |-> getPublicKey(es),
   rs |-> Undef, re |-> Undef, h |-> Undef, ck |-> Undef,
   temp_k1 |-> Undef, temp_k2 |-> Undef, temp_k3 |-> Undef,
   sk |-> Undef, rk |-> Undef, sn |-> NoNonce, rn |-> NoNonce]

\* the outcome of a call: the state it leaves, the error it threw, its result
Ret(s, m)   == [s |-> s, e |-> "none", m |-> m]
Throw(s, e) == [s |-> s, e |-> e, m |-> [len |-> 0, v |-> 0, a |-> Nil, b |-> Nil]]
NoMessage   == [len |-> 0, v |-> 0, a |-> Nil, b |-> Nil]

\* _initialize(pubkey)
_initialize(s, pubkey) ==
  LET h0 == sha256(protocolName, Nil)
      h1 == sha256(h0, prologue)
  IN  [s EXCEPT !.ck = h0, !.h = sha256(h1, pubkey)]

\* An undefined operand makes Buffer.concat and the crypto calls throw a
\* TypeError at the statement that uses it; the assignments made before
\* that statement stay.
Def(x) == x # Undef

\* initiatorAct1 without the last "h = sha256(h || c)"
initiatorAct1_noMix(s, rs) ==
  LET s1  == _initialize([s EXCEPT !.rs = rs], rs)
      h1  == sha256(s1.h, s1.ep)
      ss  == ecdh(rs, s1.es)
      k1  == hkdf(s1.ck, ss)
      c   == ccpEncrypt(k1.last32, 0, h1, Nil)
  IN  Ret([s1 EXCEPT !.h = h1, !.ck = k1.first32, !.temp_k1 = k1.last32],
          ActMessage(s1.ep, c))

\* initiatorAct1(rs)
initiatorAct1(s, rs) ==
  LET s1  == _initialize([s EXCEPT !.rs = rs], rs)
      h1  == sha256(s1.h, s1.ep)
      ss  == ecdh(rs, s1.es)
      k1  == hkdf(s1.ck, ss)
      c   == ccpEncrypt(k1.last32, 0, h1, Nil)
  IN  Ret([s1 EXCEPT !.h = sha256(h1, c), !.ck = k1.first32, !.temp_k1 = k1.last32],
          ActMessage(s1.ep, c))

\* initiatorAct2 without the check of the version byte
initiatorAct2_anyVersion(s, m) ==
  IF m.len # 50 THEN Throw(s, "ACT2_READ_FAILED") ELSE
  LET s1 == [s EXCEPT !.re = m.a] IN
  IF ~Def(s1.h) \/ s1.re[1] # "pub" THEN Throw(s1, "TypeError") ELSE
  LET s2 == [s1 EXCEPT !.h = sha256(s1.h, s1.re)]
      ss == ecdh(s2.re, s2.es)
  IN
  IF ~Def(s2.ck) THEN Throw(s2, "TypeError") ELSE
  LET k2 == hkdf(s2.ck, ss)
      s3 == [s2 EXCEPT !.ck = k2.first32, !.temp_k2 = k2.last32]
  IN
  IF ~ccpDecrypt(s3.temp_k2, 0, s3.h, m.b).ok THEN Throw(s3, "AEAD_FAILED") ELSE
  Ret([s3 EXCEPT !.h = sha256(s3.h, m.b)], NoMessage)

\* initiatorAct2(m)
initiatorAct2(s, m) ==
  IF m.len # 50 THEN Throw(s, "ACT2_READ_FAILED") ELSE
  LET s1 == [s EXCEPT !.re = m.a] IN
  IF m.v # 0 THEN Throw(s1, "ACT2_BAD_VERSION") ELSE
  IF ~Def(s1.h) \/ s1.re[1] # "pub" THEN Throw(s1, "TypeError") ELSE
  LET s2 == [s1 EXCEPT !.h = sha256(s1.h, s1.re)]
      ss == ecdh(s2.re, s2.es)
  IN
  IF ~Def(s2.ck) THEN Throw(s2, "TypeError") ELSE
  LET k2 == hkdf(s2.ck, ss)
      s3 == [s2 EXCEPT !.ck = k2.first32, !.temp_k2 = k2.last32]
  IN
  IF ~ccpDecrypt(s3.temp_k2, 0, s3.h, m.b).ok THEN Throw(s3, "AEAD_FAILED") ELSE
  Ret([s3 EXCEPT !.h = sha256(s3.h, m.b)], NoMessage)

\* initiatorAct3()
initiatorAct3(s) ==
  IF ~Def(s.temp_k2) \/ ~Def(s.h) THEN Throw(s, "TypeError") ELSE
  LET c  == ccpEncrypt(s.temp_k2, 1, s.h, s.lp)
      s1 == [s EXCEPT !.h = sha256(s.h, c)]
  IN
  IF ~Def(s1.re) \/ ~Def(s1.ck) THEN Throw(s1, "TypeError") ELSE
  LET ss == ecdh(s1.re, s1.ls)
      k3 == hkdf(s1.ck, ss)
      s2 == [s1 EXCEPT !.ck = k3.first32, !.temp_k3 = k3.last32]
      t  == ccpEncrypt(s2.temp_k3, 0, s2.h, Nil)
      sk == hkdf(s2.ck, Nil)
  IN  Ret([s2 EXCEPT !.rk = sk.last32, !.sk = sk.first32, !.sn = 0, !.rn = 0],
          ActMessage(c, t))

\* receiveAct1(m)
receiveAct1(s, m) ==
  LET s0 == _initialize(s, s.lp) IN
  IF m.len # 50 THEN Throw(s0, "ACT1_READ_FAILED") ELSE
  LET s1 == [s0 EXCEPT !.re = m.a] IN
  IF m.v # 0 THEN Throw(s1, "ACT1_BAD_VERSION") ELSE
  IF s1.re[1] # "pub" THEN Throw(s1, "TypeError") ELSE
  LET s2 == [s1 EXCEPT !.h = sha256(s1.h, s1.re)]
      ss == ecdh(s2.re, s2.ls)
      k1 == hkdf(s2.ck, ss)
      s3 == [s2 EXCEPT !.ck = k1.first32, !.temp_k1 = k1.last32]
  IN
  IF ~ccpDecrypt(s3.temp_k1, 0, s3.h, m.b).ok THEN Throw(s3, "AEAD_FAILED") ELSE
  Ret([s3 EXCEPT !.h = sha256(s3.h, m.b)], NoMessage)

\* recieveAct2 keeping temp_k2 in a local only
recieveAct2_localKey(s) ==
  IF ~Def(s.h) THEN Throw(s, "TypeError") ELSE
  LET s1 == [s EXCEPT !.h = sha256(s.h, s.ep)] IN
  IF ~Def(s1.re) \/ ~Def(s1.ck) THEN Throw(s1, "TypeError") ELSE
  LET ss == ecdh(s1.re, s1.es)
      k2 == hkdf(s1.ck, ss)
      s2 == [s1 EXCEPT !.ck = k2.first32]
      c  == ccpEncrypt(k2.last32, 0, s2.h, Nil)
  IN  Ret([s2 EXCEPT !.h = sha256(s2.h, c)], ActMessage(s2.ep, c))

\* recieveAct2()
recieveAct2(s) ==
  IF ~Def(s.h) THEN Throw(s, "TypeError") ELSE
  LET s1 == [s EXCEPT !.h = sha256(s.h, s.ep)] IN
  IF ~Def(s1.re) \/ ~Def(s1.ck) THEN Throw(s1, "TypeError") ELSE
  LET ss == ecdh(s1.re, s1.es)
      k2 == hkdf(s1.ck, ss)
      s2 == [s1 EXCEPT !.ck = k2.first32, !.temp_k2 = k2.last32]
      c  == ccpEncrypt(s2.temp_k2, 0, s2.h, Nil)
  IN  Ret([s2 EXCEPT !.h = sha256(s2.h, c)], ActMessage(s2.ep, c))

\* receiveAct3 with the initiator's labels: first 32 bytes sk, last 32 rk
receiveAct3_sameLabels(s, m) ==
  IF m.len # 66 THEN Throw(s, "ACT3_READ_FAILED") ELSE
  IF m.v # 0 THEN Throw(s, "ACT3_BAD_VERSION") ELSE
  LET d == ccpDecrypt(s.temp_k2, 1, s.h, m.a) IN
  IF ~Def(s.temp_k2) \/ ~Def(s.h) THEN Throw(s, "TypeError") ELSE
  IF ~d.ok THEN Throw(s, "AEAD_FAILED") ELSE
  LET s1 == [s EXCEPT !.rs = d.pt, !.h = sha256(s.h, m.a)] IN
  IF s1.rs[1] # "pub" \/ ~Def(s1.ck) THEN Throw(s1, "TypeError") ELSE
  LET ss == ecdh(s1.rs, s1.es)
      k3 == hkdf(s1.ck, ss)
      s2 == [s1 EXCEPT !.ck = k3.first32, !.temp_k3 = k3.last32]
  IN
  IF ~ccpDecrypt(s2.temp_k3, 0, s2.h, m.b).ok THEN Throw(s2, "AEAD_FAILED") ELSE
  LET sk == hkdf(s2.ck, Nil) IN
  Ret([s2 EXCEPT !.rk = sk.last32, !.sk = sk.first32, !.rn = 0, !.sn = 0], NoMessage)

\* receiveAct3(m)
receiveAct3(s, m) ==
  IF m.len # 66 THEN Throw(s, "ACT3_READ_FAILED") ELSE
  IF m.v # 0 THEN Throw(s, "ACT3_BAD_VERSION") ELSE
  LET d == ccpDecrypt(s.temp_k2, 1, s.h, m.a) IN
  IF ~Def(s.temp_k2) \/ ~Def(s.h) THEN Throw(s, "TypeError") ELSE
  IF ~d.ok THEN Throw(s, "AEAD_FAILED") ELSE
  LET s1 == [s EXCEPT !.rs = d.pt, !.h = sha256(s.h, m.a)] IN
  IF s1.rs[1] # "pub" \/ ~Def(s1.ck) THEN Throw(s1, "TypeError") ELSE
  LET ss == ecdh(s1.rs, s1.es)
      k3 == hkdf(s1.ck, ss)
      s2 == [s1 EXCEPT !.ck = k3.first32, !.temp_k3 = k3.last32]
  IN
  IF ~ccpDecrypt(s2.temp_k3, 0, s2.h, m.b).ok THEN Throw(s2, "AEAD_FAILED") ELSE
  LET sk == hkdf(s2.ck, Nil) IN
  Ret([s2 EXCEPT !.rk = sk.first32, !.sk = sk.last32, !.rn = 0, !.sn = 0], NoMessage)

----------------------------------------------------------------------------
(* Transport framing                                                       *)

RotateAt_odd == 999    \* a rotation threshold that is not a multiple of two
RotateAt   == 1000     \* the counter value at which a key is rotated
NonceWidth == 65536    \* the counter is a uint16 (readUInt16LE / writeUInt16LE)

\* _incrementSendingNonce(): stores and returns newValue
_incrementSendingNonce(s) ==
  LET newValue == s.sn + 1
  IN  [s |-> [s EXCEPT !.sn = newValue % NonceWidth], v |-> newValue]

\* _incrementRecievingNonce()
_incrementRecievingNonce(s) ==
  LET newValue == s.rn + 1
  IN  [s |-> [s EXCEPT !.rn = newValue % NonceWidth], v |-> newValue]

\* the sending nonce reset without a new sending key
_rotateSendingKeys_keepKey(s) ==
  LET res == hkdf(s.ck, s.sk)
  IN  [s EXCEPT !.ck = res.first32, !.sn = 0]

\* _rotateSendingKeys()
_rotateSendingKeys(s) ==
  LET res == hkdf(s.ck, s.sk)
  IN  [s EXCEPT !.sk = res.last32, !.ck = res.first32, !.sn = 0]

\* the receiving key rotated without the reset of rn
_rotateRecievingKeys_noReset(s) ==
  LET res == hkdf(s.ck, s.rk)
  IN  [s EXCEPT !.rk = res.last32, !.ck = res.first32]

\* _rotateRecievingKeys()
_rotateRecievingKeys(s) ==
  LET res == hkdf(s.ck, s.rk)
  IN  [s EXCEPT !.rk = res.last32, !.ck = res.first32, !.rn = 0]

\* the sending key rotated only once the counter has passed 1000
StepSendingNonce_late(s) ==
  LET i == _incrementSendingNonce(s)
  IN  IF i.v > RotateAt THEN _rotateSendingKeys(i.s) ELSE i.s

\* "if (this._incrementSendingNonce() >= 1000) this._rotateSendingKeys()"
StepSendingNonce(s) ==
  LET i == _incrementSendingNonce(s)
  IN  IF i.v >= RotateAt THEN _rotateSendingKeys(i.s) ELSE i.s

\* "if (this._incrementRecievingNonce() >= 1000) this._rotateRecievingKeys()"
StepRecievingNonce(s) ==
  LET i == _incrementRecievingNonce(s)
  IN  IF i.v >= RotateAt THEN _rotateRecievingKeys(i.s) ELSE i.s

NoFrame == [lc |-> Nil, c |-> Nil]

\* encryptMessage(m): the frame is lc || c
encryptMessage(s, m) ==
  IF ~Def(s.sk) \/ s.sn = NoNonce THEN [s |-> s, e |-> "TypeError", f |-> NoFrame] ELSE
  LET l  == <<"u16", ByteLen(m) % 65536>>
      lc == ccpEncrypt(s.sk, s.sn, Nil, l)
      s1 == StepSendingNonce(s)
      c  == ccpEncrypt(s1.sk, s1.sn, Nil, m)
      s2 == StepSendingNonce(s1)
  IN  [s |-> s2, e |-> "none", f |-> [lc |-> lc, c |-> c]]

\* decryptLength(lc): returns l.readUInt16BE(0)
decryptLength(s, lc) ==
  LET d == ccpDecrypt(s.rk, s.rn, Nil, lc) IN
  IF ~Def(s.rk) \/ s.rn = NoNonce THEN [s |-> s, e |-> "TypeError", out |-> Nil] ELSE
  IF ~d.ok THEN [s |-> s, e |-> "AEAD_FAILED", out |-> Nil] ELSE
  [s |-> StepRecievingNonce(s), e |-> "none", out |-> d.pt]

\* decryptMessage(c)
decryptMessage(s, c) ==
  LET d == ccpDecrypt(s.rk, s.rn, Nil, c) IN
  IF ~Def(s.rk) \/ s.rn = NoNonce THEN [s |-> s, e |-> "TypeError", out |-> Nil] ELSE
  IF ~d.ok THEN [s |-> s, e |-> "AEAD_FAILED", out |-> Nil] ELSE
  [s |-> StepRecievingNonce(s), e |-> "none", out |-> d.pt]

----------------------------------------------------------------------------
(* JavaScript numbers and arrays                                           *)

Min(a, b) == IF a < b THEN a ELSE b
Max(a, b) == IF a > b THEN a ELSE b

MaxInt32 == 2147483647

\* A number that may not fit 32 bits is held as its base-32 digits, most
\* significant first (the timestamp is such a number).  ToInt32 is what the
\* operators &, >>, <<, | make of it: the low 32 bits, read as signed.
ToInt32(digits) ==
  LET n   == Len(digits)
      d(k) == IF k < n THEN digits[n - k] ELSE 0      \* digit of weight 32^k
      low30 == d(0) + 32 * d(1) + 1024 * d(2) + 32768 * d(3)
                 + 1048576 * d(4) + 33554432 * d(5)
      low31 == low30 + 1073741824 * (d(6) % 2)
  IN  IF (d(6) \div 2) % 2 = 1 THEN (low31 - MaxInt32) - 1 ELSE low31

\* the base-32 digits of a non-negative number, most significant first
RECURSIVE Digits32(_)
Digits32(n) == IF n < 32 THEN <<n>> ELSE Append(Digits32(n \div 32), n % 32)

\* the digits without leading zeros
RECURSIVE Canonical(_)
Canonical(digits) ==
  IF Len(digits) > 1 /\ Head(digits) = 0 THEN Canonical(Tail(digits)) ELSE digits

\* val << 5 on a 32-bit signed value
ShiftLeft5(val) ==
  LET low26 == val % 67108864
      bit26 == (val \div 67108864) % 2
  IN  IF bit26 = 1 THEN (32 * low26 - MaxInt32) - 1 ELSE 32 * low26

\* Array.prototype.slice(start, end)
Slice(a, start, end) ==
  LET n  == Len(a)
      st == IF start < 0 THEN Max(n + start, 0) ELSE Min(start, n)
      en == IF end < 0 THEN Max(n + end, 0) ELSE Min(end, n)
  IN  IF en <= st THEN <<>> ELSE SubSeq(a, st + 1, en)

----------------------------------------------------------------------------
(* bech32-util                                                             *)

\* convertWords(data, inBits, outBits, pad): the bech32 regrouping of the
\* bit stream of data into groups of outBits bits; a last partial group is
\* padded with zero bits on the right when pad, and dropped otherwise.
Elem(data, i) == IF i <= Len(data) THEN data[i] ELSE 0

\* the outBits bits from bit k of the stream, read out of the three
\* elements that hold them (bits past the end of the data are 0)
Window(data, inBits, outBits, k) ==
  LET a == (k \div inBits) + 1
      o == k % inBits
      v == Elem(data, a) * 2 ^ (2 * inBits) + Elem(data, a + 1) * 2 ^ inBits
             + Elem(data, a + 2)
  IN  (v \div 2 ^ (3 * inBits - o - outBits)) % 2 ^ outBits

convertWords(data, inBits, outBits, pad) ==
  LET total == Len(data) * inBits
      n     == IF pad THEN (total + outBits - 1) \div outBits ELSE total \div outBits
  IN  [j \in 1..n |-> Window(data, inBits, outBits, outBits * (j - 1))]

\* sizeofBits(bits): the words that hold so many bits
sizeofBits(bits) == (bits + 4) \div 5

\* sizeofBytes(bytes)
sizeofBytes(bytes) == sizeofBits(bytes * 8)

\* sizeofNum(num): the smallest word count that holds num (0 for 0)
RECURSIVE sizeofNum(_)
sizeofNum(num) == IF num <= 0 THEN 0 ELSE 1 + sizeofNum(num \div 32)

----------------------------------------------------------------------------
(* WordCursor                                                              *)

\* constructor(words = [])
NewWordCursor(words) == [words |-> words, position |-> 0]

\* get wordsRemaining
wordsRemaining(cur) == Len(cur.words) - cur.position

\* the loop of writeUIntBE: words[i] = val & 31; val >>= 5
RECURSIVE UIntWords(_, _)
UIntWords(val, wordLen) ==
  IF wordLen = 0 THEN <<>>
  ELSE Append(UIntWords(val \div 32, wordLen - 1), val % 32)

\* writeUIntBE(val, wordLen); val after ToInt32; throws when wordLen is 0
writeUIntBE(cur, val, wordLen) ==
  [cur EXCEPT !.words = @ \o UIntWords(val, wordLen)]

\* writeBytes(buf, pad = true)
writeBytes(cur, buf) ==
  [cur EXCEPT !.words = @ \o convertWords(buf, 8, 5, TRUE)]

\* the loop of readUIntBE: val <<= 5; val |= word
RECURSIVE FoldWords(_, _, _)
FoldWords(words, i, val) ==
  IF i > Len(words) THEN val
  ELSE FoldWords(words, i + 1, ShiftLeft5(val) + words[i])

\* readUIntBE(numWords); of more than 7 words the leading ones are shifted
\* out of the 32 bits of val, so the fold starts at the last 7
readUIntBE(cur, numWords) ==
  LET words == Slice(cur.words, cur.position, cur.position + numWords) IN
  [cur |-> [cur EXCEPT !.position = @ + numWords],
   val |-> FoldWords(SubSeq(words, Max(1, Len(words) - 6), Len(words)), 1, 0)]

\* readBytes that moves the position the wrong way
readBytes_backward(cur, numWords, pad) ==
  [cur |-> [cur EXCEPT !.position = @ - numWords],
   val |-> convertWords(Slice(cur.words, cur.position, cur.position + numWords), 5, 8, pad)]

\* readBytes(numWords, pad = false)
readBytes(cur, numWords, pad) ==
  [cur |-> [cur EXCEPT !.position = @ + numWords],
   val |-> convertWords(Slice(cur.words, cur.position, cur.position + numWords), 5, 8, pad)]

----------------------------------------------------------------------------
(* constants                                                               *)

PAYMENT_HASH          == 1
ROUTE                 == 3
EXPIRY                == 6
FALLBACK_ADDRESS      == 9
SHORT_DESC            == 13
PAYEE_NODE            == 19
HASH_DESC             == 23
MIN_FINAL_CLTV_EXPIRY == 24

SEGWIT == 0
P2PKH  == 17
P2SH   == 18

KnownTypes == {PAYMENT_HASH, ROUTE, EXPIRY, FALLBACK_ADDRESS, SHORT_DESC,
               PAYEE_NODE, HASH_DESC, MIN_FINAL_CLTV_EXPIRY}

TimestampWords == 7     \* readUIntBE(7)
SignatureTail  == 104   \* while (wordcursor.wordsRemaining > 104)
SignatureWords == 103   \* readBytes(103)
HashWords      == 52    \* if (len !== 52)
NodeWords      == 53    \* if (len !== 53)
HopBytes       == 51    \* (264 + 64 + 32 + 32 + 16) / 8

----------------------------------------------------------------------------
(* Strings are sequences of one-character strings; a BN is the sequence of *)
(* its decimal digits without leading zeros.                               *)

LowerCase == {"a", "b", "c", "d", "e", "f", "g", "h", "i", "j", "k", "l", "m",
              "n", "o", "p", "q", "r", "s", "t", "u", "v", "w", "x", "y", "z"}
DecDigits == {"0", "1", "2", "3", "4", "5", "6", "7", "8", "9"}

Null     == <<"null">>
BN(ds)   == <<"bn", ds>>
Zeros(n) == [i \in 1..n |-> "0"]

RECURSIVE StripZeros(_)
StripZeros(ds) ==
  IF Len(ds) > 1 /\ Head(ds) = "0" THEN StripZeros(Tail(ds)) ELSE ds

RECURSIVE TrailingZeros(_)
TrailingZeros(ds) ==
  IF ds # <<>> /\ ds[Len(ds)] = "0"
  THEN 1 + TrailingZeros(SubSeq(ds, 1, Len(ds) - 1)) ELSE 0

IsZero(ds) == StripZeros(ds) = <<"0">>

\* hrpToPico(multiplier): the power of ten a multiplier stands for; "" is
\* the absent multiplier; an unknown letter is an error (-1)
hrpToPico(multiplier) ==
  CASE multiplier = ""  -> 12
    [] multiplier = "m" -> 9
    [] multiplier = "u" -> 6
    [] multiplier = "n" -> 3
    [] multiplier = "p" -> 0
    [] OTHER -> 0 - 1

\* new BN(value).mul(factor)
BNmul(ds, exp10) == IF IsZero(ds) THEN <<"0">> ELSE StripZeros(ds) \o Zeros(exp10)

\* encodePico(pico): the shortest <digits><multiplier> for a pico value
encodePico(ds) ==
  LET z == TrailingZeros(ds)
      cut(k) == SubSeq(ds, 1, Len(ds) - k)
  IN  IF IsZero(ds) THEN ds \o <<"p">>
      ELSE IF z >= 12 THEN cut(12)
      ELSE IF z >= 9 THEN cut(9) \o <<"m">>
      ELSE IF z >= 6 THEN cut(6) \o <<"u">>
      ELSE IF z >= 3 THEN cut(3) \o <<"n">>
      ELSE ds \o <<"p">>

----------------------------------------------------------------------------
(* decoder: parsePrefix                                                    *)

\* isValidNetwork(network)
isValidNetwork(network) ==
  network \in {<<"b", "c">>, <<"t", "b">>, <<"b", "c", "r", "t">>, <<"s", "b">>}

\* isValidValue that lets a zero amount through
isValidValue_nonNegative(value) == value = Null \/ value[2] # <<>>

\* isValidValue(value)
isValidValue(value) == value = Null \/ ~IsZero(value[2])

\* one pass of the for loop of parsePrefix over prefix[i]; st holds network,
\* value, multiplier, hasNetwork, hasAmount and the error thrown, if any
PrefixChar(st, ch) ==
  LET s1 == IF st.hasNetwork THEN st
            ELSE IF ch \in LowerCase THEN [st EXCEPT !.network = Append(@, ch)]
            ELSE [st EXCEPT !.hasNetwork = TRUE]
      s2 == IF ~(s1.hasNetwork /\ ~s1.hasAmount) THEN s1
            ELSE IF ch \in DecDigits THEN [s1 EXCEPT !.value = Append(@, ch)]
            ELSE IF s1.value # <<>> THEN [s1 EXCEPT !.hasAmount = TRUE]
            ELSE [s1 EXCEPT !.e = "Invalid amount"]
      s3 == IF s2.e # "none" \/ ~s2.hasAmount THEN s2
            ELSE IF ch \in LowerCase THEN [s2 EXCEPT !.multiplier = ch]
            ELSE [s2 EXCEPT !.e = "Invalid character"]
  IN  s3

RECURSIVE PrefixLoop(_, _, _)
PrefixLoop(prefix, i, st) ==
  IF i > Len(prefix) \/ st.e # "none" THEN st
  ELSE PrefixLoop(prefix, i + 1, PrefixChar(st, prefix[i]))

\* parsePrefix(prefix)
parsePrefix(prefix) ==
  LET fail(e) == [e |-> e, network |-> <<>>, value |-> Null] IN
  IF Len(prefix) < 2 \/ SubSeq(prefix, 1, 2) # <<"l", "n">> THEN fail("Invalid prefix") ELSE
  LET st == PrefixLoop(prefix, 3,
                       [network |-> <<>>, value |-> <<>>, multiplier |-> "",
                        hasNetwork |-> FALSE, hasAmount |-> FALSE, e |-> "none"])
  IN
  IF st.e # "none" THEN fail(st.e) ELSE
  IF st.value # <<>> /\ hrpToPico(st.multiplier) < 0 THEN fail("Invalid multiplier") ELSE
  LET value == IF st.value = <<>> THEN Null
               ELSE BN(BNmul(st.value, hrpToPico(st.multiplier)))
  IN
  IF ~isValidNetwork(st.network) THEN fail("Invalid network") ELSE
  IF ~isValidValue(value) THEN fail("Invalid amount") ELSE
  [e |-> "none", network |-> st.network, value |-> value]

----------------------------------------------------------------------------
(* crypto (invoice): SHA-256 and ECDSA as symbolic values.  sigs is the    *)
(* set of signatures that exist: [sig, recovery, digest, key].             *)

\* the compressed public key of the private key k
PubBytes(k) == <<2>> \o [i \in 1..32 |-> k]

\* a public key nobody holds the private key of
StrayKey == 0

\* crypto.sha256(Buffer.concat([Buffer.from(prefix), bytes]))
Digest(prefix, bytes) == <<"sha256", prefix, bytes>>

\* crypto.ecdsaSign(sigHash, privKey): 64 bytes and a recovery flag; the
\* same hash and key give the same signature, other ones a different one
ecdsaSign(table, sigHash, privKey) ==
  LET known == {e \in table : e.digest = sigHash /\ e.key = privKey}
      id    == Cardinality({e.sig : e \in table}) + 1
  IN  IF known # {} THEN CHOOSE e \in known : TRUE
      ELSE [sig |-> [i \in 1..64 |-> id], recovery |-> privKey % 4,
            digest |-> sigHash, key |-> privKey]

\* crypto.ecdsaRecovery(hashData, sigBytes, recoveryFlag): the public key
\* the signature verifies under; throws on a malformed signature
ecdsaRecovery(table, hashData, sigBytes, recoveryFlag) ==
  LET made == {e \in table : e.sig = sigBytes /\ e.digest = hashData
                               /\ e.recovery = recoveryFlag}
  IN  IF Len(sigBytes) # 64 \/ recoveryFlag \notin 0..3
      THEN [e |-> "ecdsaRecovery failed", pubkey |-> <<>>]
      ELSE IF made # {} THEN [e |-> "none", pubkey |-> PubBytes((CHOOSE e \in made : TRUE).key)]
      ELSE [e |-> "none", pubkey |-> PubBytes(StrayKey)]

\* crypto.ecdsaVerify(pubkey, hashData, sigBytes)
ecdsaVerify(table, pubkey, hashData, sigBytes) ==
  LET made == {e \in table : e.sig = sigBytes /\ e.digest = hashData}
  IN  /\ Len(sigBytes) = 64
      /\ IF made # {} THEN \E e \in made : pubkey = PubBytes(e.key)
                      ELSE pubkey = PubBytes(StrayKey)

----------------------------------------------------------------------------
(* decoder: decode                                                         *)

\* Buffer.toString('utf8') and Buffer.from(string, 'utf8'), on code points
\* below 128; any other byte decodes to U+FFFD
Utf8ToString(bytes) == [i \in 1..Len(bytes) |-> IF bytes[i] < 128 THEN bytes[i] ELSE 65533]
Utf8FromString(str) ==
  [i \in 1..Len(str) |-> IF str[i] < 128 THEN str[i] ELSE 239]

\* the hops read by the BufferCursor from the bytes of a route
Hop(bytes, k) ==
  LET at(a, b) == SubSeq(bytes, HopBytes * k + a, HopBytes * k + b)
  IN  [pubkey |-> at(1, 33), short_channel_id |-> at(34, 41),
       fee_base_msat |-> at(42, 45), fee_proportional_millionths |-> at(46, 49),
       cltv_expiry_delta |-> 256 * bytes[HopBytes * k + 50] + bytes[HopBytes * k + 51]]

Hops(bytes) == [k \in 1..(Len(bytes) \div HopBytes) |-> Hop(bytes, k - 1)]

\* decode whose payment_hash and hash_desc cases do not test the length
DecodeEntry_lenUnchecked(cur) ==
  LET rt   == readUIntBE(cur, 1)
      rl   == readUIntBE(rt.cur, 2)
      type == rt.val
      len  == rl.val
      c0   == rl.cur
      out(c, to, v) == [cur |-> c, to |-> to, type |-> type, len |-> len, value |-> v]
      rb   == readBytes(c0, len, FALSE)
      rn   == readUIntBE(c0, len)
  IN  CASE type = 0 -> out(c0, "padding", <<"none">>)
        [] type \in {PAYMENT_HASH, HASH_DESC} ->
             out(rb.cur, "fields", <<"buf", rb.val>>)
        [] type = ROUTE ->
             IF Len(rb.val) % HopBytes # 0
             THEN out(rb.cur, "error", <<"none">>)
             ELSE out(rb.cur, "fields", <<"route", Hops(rb.val)>>)
        [] type \in {EXPIRY, MIN_FINAL_CLTV_EXPIRY} ->
             out(rn.cur, "fields", <<"num", rn.val>>)
        [] type = FALLBACK_ADDRESS ->
             LET rv == readUIntBE(c0, 1)
                 ra == readBytes(rv.cur, len - 1, FALSE)
             IN  out(ra.cur,
                     IF rv.val \notin {SEGWIT, P2PKH, P2SH} THEN "unknownFields" ELSE "fields",
                     <<"addr", rv.val, ra.val>>)
        [] type = SHORT_DESC ->
             out(rb.cur, "fields", <<"str", Utf8ToString(rb.val)>>)
        [] type = PAYEE_NODE ->
             out(rb.cur, IF len # NodeWords THEN "unknownFields" ELSE "fields",
                 <<"buf", rb.val>>)
        [] OTHER -> out(rb.cur, "unknownFields", <<"buf", rb.val>>)

\* one iteration of the while loop of decode, from the cursor at the start
\* of an entry: where the entry goes ("fields", "unknownFields", "padding"
\* for the continue of case 0, "error" for a throw) and the cursor after it
DecodeEntry(cur) ==
  LET rt   == readUIntBE(cur, 1)
      rl   == readUIntBE(rt.cur, 2)
      type == rt.val
      len  == rl.val
      c0   == rl.cur
      out(c, to, v) == [cur |-> c, to |-> to, type |-> type, len |-> len, value |-> v]
      rb   == readBytes(c0, len, FALSE)
      rn   == readUIntBE(c0, len)
  IN  CASE type = 0 -> out(c0, "padding", <<"none">>)
        [] type \in {PAYMENT_HASH, HASH_DESC} ->
             out(rb.cur, IF len # HashWords THEN "unknownFields" ELSE "fields",
                 <<"buf", rb.val>>)
        [] type = ROUTE ->
             IF Len(rb.val) % HopBytes # 0
             THEN out(rb.cur, "error", <<"none">>)
             ELSE out(rb.cur, "fields", <<"route", Hops(rb.val)>>)
        [] type \in {EXPIRY, MIN_FINAL_CLTV_EXPIRY} ->
             out(rn.cur, "fields", <<"num", rn.val>>)
        [] type = FALLBACK_ADDRESS ->
             LET rv == readUIntBE(c0, 1)
                 ra == readBytes(rv.cur, len - 1, FALSE)
             IN  out(ra.cur,
                     IF rv.val \notin {SEGWIT, P2PKH, P2SH} THEN "unknownFields" ELSE "fields",
                     <<"addr", rv.val, ra.val>>)
        [] type = SHORT_DESC ->
             out(rb.cur, "fields", <<"str", Utf8ToString(rb.val)>>)
        [] type = PAYEE_NODE ->
             out(rb.cur, IF len # NodeWords THEN "unknownFields" ELSE "fields",
                 <<"buf", rb.val>>)
        [] OTHER -> out(rb.cur, "unknownFields", <<"buf", rb.val>>)

\* fields.find(p => p.type === FIELD_TYPE.PAYEE_NODE)
PayeeNodeFields(fs) == {i \in 1..Len(fs) : fs[i].type = PAYEE_NODE}
FirstPayeeNode(fs) == CHOOSE i \in PayeeNodeFields(fs) : \A j \in PayeeNodeFields(fs) : i <= j

\* decode after the while loop: the signature, the pre-image, the public
\* key, the verification and the Invoice returned
DecodeTail(table, prefix, cur, loc, fs, ufs) ==
  LET rs   == readBytes(cur, SignatureWords, FALSE)
      sigBytes == rs.val
      rf   == readUIntBE(rs.cur, 1)
      recoveryFlag == rf.val
      rp   == readBytes([rf.cur EXCEPT !.position = 0], Len(cur.words) - SignatureTail, TRUE)
      hashData == Digest(prefix, rp.val)
      hasNode  == PayeeNodeFields(fs) # {}
      rec  == ecdsaRecovery(table, hashData, sigBytes, recoveryFlag)
      pubkey == IF hasNode THEN fs[FirstPayeeNode(fs)].value[2] ELSE rec.pubkey
      fail(e) == [e |-> e, cur |-> rp.cur, invoice |-> <<>>]
  IN  IF ~hasNode /\ rec.e # "none" THEN fail(rec.e)
      ELSE IF ~ecdsaVerify(table, pubkey, hashData, sigBytes) THEN fail("Signature invalid")
      ELSE [e |-> "none", cur |-> rp.cur,
            invoice |-> <<[value |-> loc.value, network |-> loc.network,
                           timestamp |-> loc.timestamp, fields |-> fs,
                           unknownFields |-> ufs,
                           signature |-> [r |-> Slice(sigBytes, 0, 32),
                                          s |-> Slice(sigBytes, 32, Len(sigBytes)),
                                          recoveryFlag |-> recoveryFlag],
                           pubkey |-> pubkey, hashData |-> hashData,
                           usedSigRecovery |-> hasNode]>>]

----------------------------------------------------------------------------
(* encoder: encode.  A number is <<"int", n>> when it fits 32 bits signed   *)
(* and <<"wide", base-32 digits>> otherwise.                               *)

\* what the bit operators of writeUIntBE make of a number
NumToInt32(num) == IF num[1] = "int" THEN num[2] ELSE ToInt32(num[2])

\* type, length and body of one field written by _encodeData
WriteField(w, type, dataLen, body) ==
  [e |-> "none",
   w |-> [writeUIntBE(writeUIntBE(w, type, 1), dataLen, 2) EXCEPT !.words = @ \o body]]

\* the buffer of a route: the hops packed one after the other
RECURSIVE RouteBytes(_)
RouteBytes(hops) ==
  IF hops = <<>> THEN <<>>
  ELSE LET r == Head(hops)
       IN  r.pubkey \o r.short_channel_id \o r.fee_base_msat
             \o r.fee_proportional_millionths
             \o <<(r.cltv_expiry_delta \div 256) % 256, r.cltv_expiry_delta % 256>>
             \o RouteBytes(Tail(hops))

\* one pass of the for loop of _encodeData
EncodeDatum(w, datum) ==
  LET type  == datum.type
      value == datum.value
      bytes(buf) == WriteField(w, type, sizeofBytes(Len(buf)), convertWords(buf, 8, 5, TRUE))
      num(n) == IF sizeofNum(n) = 0 THEN [e |-> "wordLen must be provided", w |-> w]
                ELSE WriteField(w, type, sizeofNum(n), UIntWords(n, sizeofNum(n)))
  IN  CASE type \in {PAYMENT_HASH, PAYEE_NODE, HASH_DESC} -> bytes(value[2])
        [] type = ROUTE ->
             WriteField(w, type, sizeofBits(Len(value[2]) * 408),
                        convertWords(RouteBytes(value[2]), 8, 5, TRUE))
        [] type \in {EXPIRY, MIN_FINAL_CLTV_EXPIRY} -> num(value[2])
        [] type = FALLBACK_ADDRESS ->
             WriteField(w, type, sizeofBytes(Len(value[3])) + 1,
                        UIntWords(value[2], 1) \o convertWords(value[3], 8, 5, TRUE))
        [] type = SHORT_DESC -> bytes(Utf8FromString(value[2]))
        [] OTHER -> IF value[1] # "buf" THEN [e |-> "Cannot process unknown field", w |-> w]
                    ELSE bytes(value[2])

\* _encodeData(invoice, writer)
RECURSIVE EncodeData(_, _, _)
EncodeData(fs, i, r) ==
  IF i > Len(fs) \/ r.e # "none" THEN r
  ELSE EncodeData(fs, i + 1, EncodeDatum(r.w, fs[i]))

_encodeData(inv, writer) == EncodeData(inv.fields, 1, [e |-> "none", w |-> writer])

\* encode(invoice, privKey): the prefix and the words handed to bech32, and
\* the signature made
encode(table, inv, privKey) ==
  LET encodedAmount == IF inv.value = Null THEN <<>> ELSE encodePico(inv.value[2])
      prefix  == <<"l", "n">> \o inv.network \o encodedAmount
      w0      == writeUIntBE(NewWordCursor(<<>>), NumToInt32(inv.timestamp), TimestampWords)
      data    == _encodeData(inv, w0)
      bytes   == convertWords(data.w.words, 5, 8, TRUE)
      sigHash == Digest(prefix, bytes)
      signed  == ecdsaSign(table, sigHash, privKey)
      w1      == writeUIntBE(writeBytes(data.w, signed.sig), signed.recovery, 1)
  IN  IF data.e # "none"
      THEN [e |-> data.e, prefix |-> prefix, words |-> data.w.words, table |-> table]
      ELSE [e |-> "none", prefix |-> prefix, words |-> w1.words,
            table |-> table \cup {signed}]

----------------------------------------------------------------------------
(* Bounds and inputs                                                       *)

StaticPrivs    == {"s1", "s2"}   \* local static private keys to draw from
EphemeralPrivs == {"e1", "e2"}   \* ephemeral private keys to draw from
StaticPubs     == {getPublicKey(k) : k \in StaticPrivs}

MaxFrames   == 1001   \* frames a sender encrypts (two key rotations)
MaxInFlight == 2      \* frames sent and not yet received, per direction
MaxPayload  == 1      \* payload lengths 0..MaxPayload
MaxCalls    == 2      \* calls made on top of a handshake prefix (SpecApi)

\* what the network may hand to the receiver in place of m
Deliveries(m) ==
  {m, [m EXCEPT !.len = @ - 1], [m EXCEPT !.len = @ + 1], [m EXCEPT !.v = 1],
   [m EXCEPT !.b = <<"bad", @>>]}

\* the handshake run in order with every message delivered unmodified,
\* stopped after k calls
HonestRun(k, lsI, esI, lsR, esR) ==
  LET i0 == NewNoiseState(lsI, esI)
      r0 == NewNoiseState(lsR, esR)
      a1 == initiatorAct1(i0, getPublicKey(lsR))
      b1 == receiveAct1(r0, a1.m)
      b2 == recieveAct2(b1.s)
      a2 == initiatorAct2(a1.s, b2.m)
      a3 == initiatorAct3(a2.s)
      b3 == receiveAct3(b2.s, a3.m)
      I  == CASE k = 0 -> i0 [] k \in 1..3 -> a1.s [] k = 4 -> a2.s [] OTHER -> a3.s
      R  == CASE k \in 0..1 -> r0 [] k = 2 -> b1.s [] k \in 3..5 -> b2.s [] OTHER -> b3.s
      M  == CASE k = 0 -> <<>>
              [] k \in 1..2 -> <<a1.m>>
              [] k \in 3..4 -> <<a1.m, b2.m>>
              [] OTHER -> <<a1.m, b2.m, a3.m>>
  IN  [ns |-> [p \in Peers |-> IF p = "I" THEN I ELSE R], msgs |-> M]

NoCall == [p |-> "I", op |-> "none", e |-> "none", len |-> 0, v |-> 0, inOrder |-> TRUE]
NoDone == [frames |-> 0, snAfter |-> 0]

----------------------------------------------------------------------------
(* The handshake, run by two callers that keep the order of the acts       *)

Phases == <<"Init", "AfterAct1", "AfterAct2", "Ready">>
PhaseNo(ph) == CHOOSE i \in 0..4 : IF i = 4 THEN ph \notin {Phases[j] : j \in 1..4}
                                            ELSE Phases[i + 1] = ph

\* the caller's position after an act of rank k (1, 2, 3) returned or threw
AfterCall(ph, k, e) ==
  IF PhaseNo(ph) # k - 1 THEN "Misused"
  ELSE IF e # "none" THEN "Failed"
  ELSE Phases[k + 1]

Called(p, op, k, r, m) ==
  lastCall' = [p |-> p, op |-> op, e |-> r.e, len |-> m.len, v |-> m.v,
               inOrder |-> PhaseNo(pc[p]) = k - 1]

IdleTransport ==
  /\ flight = [p \in Peers |-> <<>>]
  /\ rx = [p \in Peers |-> "length"]
  /\ aead = [p \in Peers |-> 0]
  /\ done = [p \in Peers |-> NoDone]

NoLocals  == [network |-> <<>>, value |-> Null, timestamp |-> <<"int", 0>>]
NoWire    == [prefix |-> <<>>, words |-> <<>>]
NoInvoice == [network |-> <<>>, value |-> Null, timestamp |-> <<"int", 0>>, fields |-> <<>>]
NoIter    == [n |-> 0, start |-> 0, type |-> 0, len |-> 0, end |-> 0, to |-> "none",
              order |-> <<>>]

IdleInvoice ==
  /\ ipc = "idle"
  /\ invoice = NoInvoice
  /\ wire = NoWire
  /\ wordcursor = [words |-> <<>>, position |-> 0]
  /\ locals = NoLocals
  /\ fields = <<>>
  /\ unknownFields = <<>>
  /\ result = <<>>
  /\ reencoded = NoWire
  /\ sigs = {}
  /\ iter = NoIter

InitHandshake ==
  /\ \E lsI \in StaticPrivs, lsR \in StaticPrivs,
        esI \in EphemeralPrivs, esR \in EphemeralPrivs :
       ns = HonestRun(0, lsI, esI, lsR, esR).ns
  /\ pc = [p \in Peers |-> "Init"]
  /\ net = <<>>
  /\ err = [p \in Peers |-> "none"]
  /\ modified = FALSE
  /\ lastCall = NoCall
  /\ calls = 0
  /\ IdleTransport
  /\ IdleInvoice

\* the effect of a call on the caller's peer
Effect(p, op, k, r, m) ==
  /\ ns' = [ns EXCEPT ![p] = r.s]
  /\ err' = [err EXCEPT ![p] = r.e]
  /\ pc' = [pc EXCEPT ![p] = AfterCall(pc[p], k, r.e)]
  /\ Called(p, op, k, r, m)
  /\ calls' = calls + 1

InitiatorAct1 ==
  /\ pc["I"] = "Init"
  /\ \E rs \in StaticPubs :
       LET r == initiatorAct1(ns["I"], rs) IN
       /\ Effect("I", "initiatorAct1", 1, r, NoMessage)
       /\ net' = <<r.m>>
  /\ UNCHANGED <<modified, transportVars, invoiceVars>>

ReceiveAct1 ==
  /\ pc["R"] = "Init" /\ pc["I"] = "AfterAct1" /\ Len(net) = 1
  /\ \E m \in Deliveries(net[1]) :
       LET r == receiveAct1(ns["R"], m) IN
       /\ Effect("R", "receiveAct1", 1, r, m)
       /\ modified' = (modified \/ m # net[1])
  /\ net' = <<>>
  /\ UNCHANGED <<transportVars, invoiceVars>>

RecieveAct2 ==
  /\ pc["R"] = "AfterAct1"
  /\ LET r == recieveAct2(ns["R"]) IN
       /\ Effect("R", "recieveAct2", 2, r, NoMessage)
       /\ net' = <<r.m>>
  /\ UNCHANGED <<modified, transportVars, invoiceVars>>

InitiatorAct2 ==
  /\ pc["I"] = "AfterAct1" /\ pc["R"] = "AfterAct2" /\ Len(net) = 1
  /\ \E m \in Deliveries(net[1]) :
       LET r == initiatorAct2(ns["I"], m) IN
       /\ Effect("I", "initiatorAct2", 2, r, m)
       /\ modified' = (modified \/ m # net[1])
  /\ net' = <<>>
  /\ UNCHANGED <<transportVars, invoiceVars>>

InitiatorAct3 ==
  /\ pc["I"] = "AfterAct2"
  /\ LET r == initiatorAct3(ns["I"]) IN
       /\ Effect("I", "initiatorAct3", 3, r, NoMessage)
       /\ net' = <<r.m>>
  /\ UNCHANGED <<modified, transportVars, invoiceVars>>

ReceiveAct3 ==
  /\ pc["R"] = "AfterAct2" /\ pc["I"] = "Ready" /\ Len(net) = 1
  /\ \E m \in Deliveries(net[1]) :
       LET r == receiveAct3(ns["R"], m) IN
       /\ Effect("R", "receiveAct3", 3, r, m)
       /\ modified' = (modified \/ m # net[1])
  /\ net' = <<>>
  /\ UNCHANGED <<transportVars, invoiceVars>>

Next ==
  \/ InitiatorAct1
  \/ ReceiveAct1
  \/ RecieveAct2
  \/ InitiatorAct2
  \/ InitiatorAct3
  \/ ReceiveAct3

Init == InitHandshake

Spec == Init /\ [][Next]_vars

----------------------------------------------------------------------------
(* The NoiseState methods called in any order.  The class has no guard on  *)
(* the order of the acts; each peer's caller uses the acts of its role,    *)
(* starting from any point of an unmodified handshake.                     *)

PhaseAfter(k, p) ==
  IF p = "I"
  THEN CASE k = 0 -> "Init" [] k \in 1..3 -> "AfterAct1" [] k = 4 -> "AfterAct2"
         [] OTHER -> "Ready"
  ELSE CASE k \in 0..1 -> "Init" [] k = 2 -> "AfterAct1" [] k \in 3..5 -> "AfterAct2"
         [] OTHER -> "Ready"

InitApi ==
  /\ \E k \in 0..6 :
       LET run == HonestRun(k, "s1", "e1", "s2", "e2") IN
       /\ ns = run.ns
       /\ net = run.msgs
       /\ pc = [p \in Peers |-> PhaseAfter(k, p)]
  /\ err = [p \in Peers |-> "none"]
  /\ modified = FALSE
  /\ lastCall = NoCall
  /\ calls = 0
  /\ IdleTransport
  /\ IdleInvoice

ApiInitiatorAct1 ==
  /\ calls < MaxCalls
  /\ \E rs \in StaticPubs :
       LET r == initiatorAct1(ns["I"], rs) IN
       /\ Effect("I", "initiatorAct1", 1, r, NoMessage)
       /\ net' = Append(net, r.m)
  /\ UNCHANGED <<modified, transportVars, invoiceVars>>

ApiInitiatorAct2 ==
  /\ calls < MaxCalls
  /\ \E i \in 1..Len(net) :
       Effect("I", "initiatorAct2", 2, initiatorAct2(ns["I"], net[i]), net[i])
  /\ UNCHANGED <<net, modified, transportVars, invoiceVars>>

ApiInitiatorAct3 ==
  /\ calls < MaxCalls
  /\ LET r == initiatorAct3(ns["I"]) IN
       /\ Effect("I", "initiatorAct3", 3, r, NoMessage)
       /\ net' = IF r.e = "none" THEN Append(net, r.m) ELSE net
  /\ UNCHANGED <<modified, transportVars, invoiceVars>>

ApiReceiveAct1 ==
  /\ calls < MaxCalls
  /\ \E i \in 1..Len(net) :
       Effect("R", "receiveAct1", 1, receiveAct1(ns["R"], net[i]), net[i])
  /\ UNCHANGED <<net, modified, transportVars, invoiceVars>>

ApiRecieveAct2 ==
  /\ calls < MaxCalls
  /\ LET r == recieveAct2(ns["R"]) IN
       /\ Effect("R", "recieveAct2", 2, r, NoMessage)
       /\ net' = IF r.e = "none" THEN Append(net, r.m) ELSE net
  /\ UNCHANGED <<modified, transportVars, invoiceVars>>

ApiReceiveAct3 ==
  /\ calls < MaxCalls
  /\ \E i \in 1..Len(net) :
       Effect("R", "receiveAct3", 3, receiveAct3(ns["R"], net[i]), net[i])
  /\ UNCHANGED <<net, modified, transportVars, invoiceVars>>

NextApi ==
  \/ ApiInitiatorAct1
  \/ ApiInitiatorAct2
  \/ ApiInitiatorAct3
  \/ ApiReceiveAct1
  \/ ApiRecieveAct2
  \/ ApiReceiveAct3

SpecApi == InitApi /\ [][NextApi]_vars

----------------------------------------------------------------------------
(* Claims about the handshake                                              *)

Ready(s) == Def(s.sk) /\ Def(s.rk) /\ s.sn # NoNonce /\ s.rn # NoNonce

\* C1: when the three acts ran in order and every message was delivered
\* unmodified, at completion the initiator's sk equals the responder's rk
\* and the initiator's rk equals the responder's sk.
C1_KeysMirror ==
  (pc["I"] = "Ready" /\ pc["R"] = "Ready" /\ ~modified)
    => /\ Ready(ns["I"]) /\ Ready(ns["R"])
       /\ ns["I"].sk = ns["R"].rk
       /\ ns["I"].rk = ns["R"].sk
       /\ ns["I"].sk # ns["I"].rk

C1_Witness ==
  /\ pc["I"] = "Ready" /\ pc["R"] = "Ready" /\ ~modified
  /\ lastCall.op = "receiveAct3" /\ lastCall.e = "none"

\* the fields a NoiseState has set in each phase
FieldsAt(s, ph) ==
  LET set == CASE ph = "Init" -> {}
               [] ph = "AfterAct1" -> {"h", "ck", "temp_k1"}
               [] ph = "AfterAct2" -> {"h", "ck", "temp_k1", "temp_k2"}
               [] OTHER -> {"h", "ck", "temp_k1", "temp_k2", "temp_k3", "sk", "rk"}
  IN  /\ \A f \in {"h", "ck", "temp_k1", "temp_k2", "temp_k3", "sk", "rk"} :
           Def(s[f]) <=> f \in set
      /\ (s.sn # NoNonce) <=> (ph = "Ready")
      /\ (s.rn # NoNonce) <=> (ph = "Ready")

\* C5 (as amended): a NoiseState whose acts are called in order, each after
\* the previous one succeeded, is in the phase Init, AfterAct1, AfterAct2 or
\* Ready that its caller has reached: it holds exactly the fields of that
\* phase, and sk, rk, sn, rn are set exactly when it is Ready.  (The order
\* is the caller's obligation: the class does not reject an act called out
\* of order.)
C5_InOrderPhases ==
  \A p \in Peers :
    pc[p] \in {Phases[i] : i \in 1..4} => FieldsAt(ns[p], pc[p])

C5_Witness ==
  /\ calls > 0 /\ lastCall.inOrder /\ lastCall.e = "none"
  /\ lastCall.op = "initiatorAct3" /\ pc["I"] = "Ready" /\ Ready(ns["I"])

\* C5 (as claimed): no act takes effect out of order, and once a NoiseState
\* is Ready no handshake act changes it again.
C5_StrictOrder ==
  [][\A p \in Peers :
       /\ (lastCall'.p = p /\ ~lastCall'.inOrder) => ns'[p] = ns[p]
       /\ Ready(ns[p]) => ns'[p] = ns[p]]_vars

\* C6: receiveAct1 and initiatorAct2 throw for every message whose length
\* is not 50 or whose first byte is not 0, receiveAct3 for every message
\* whose length is not 66 or whose first byte is not 0, and after such a
\* failure sk and rk are not set (the state is not Ready).
BadMessageCall ==
  \/ /\ lastCall.op \in {"receiveAct1", "initiatorAct2"}
     /\ (lastCall.len # 50 \/ lastCall.v # 0)
  \/ /\ lastCall.op = "receiveAct3"
     /\ (lastCall.len # 66 \/ lastCall.v # 0)

C6_BadMessageRejected ==
  BadMessageCall =>
    /\ lastCall.e \in {"ACT1_READ_FAILED", "ACT1_BAD_VERSION", "ACT2_READ_FAILED",
                       "ACT2_BAD_VERSION", "ACT3_READ_FAILED", "ACT3_BAD_VERSION"}
    /\ ~Def(ns[lastCall.p].sk) /\ ~Def(ns[lastCall.p].rk)
    /\ ~Ready(ns[lastCall.p])
    /\ pc[lastCall.p] = "Failed"

C6_Witness ==
  /\ lastCall.op = "initiatorAct2" /\ lastCall.len = 50 /\ lastCall.v # 0
  /\ lastCall.e = "ACT2_BAD_VERSION"

----------------------------------------------------------------------------
(* Transport framing between two peers that completed the handshake.  One  *)
(* direction carries traffic in a behaviour: the peer that encrypts first  *)
(* is the sender, the other one receives the frames in order, calling      *)
(* decryptLength and then decryptMessage for each frame.                   *)

Payloads == {<<"msg", n>> : n \in 0..MaxPayload}

InitTransport ==
  /\ ns = HonestRun(6, "s1", "e1", "s2", "e2").ns
  /\ pc = [p \in Peers |-> "Ready"]
  /\ net = <<>>
  /\ err = [p \in Peers |-> "none"]
  /\ modified = FALSE
  /\ lastCall = NoCall
  /\ calls = 0
  /\ IdleTransport
  /\ IdleInvoice

EncryptMessage(p) ==
  /\ aead[Other(p)] = 0
  /\ aead[p] < 2 * MaxFrames
  /\ Len(flight[p]) < MaxInFlight
  /\ \E m \in Payloads :
       LET r == encryptMessage(ns[p], m) IN
       /\ r.e = "none"
       /\ ns' = [ns EXCEPT ![p] = r.s]
       /\ flight' = [flight EXCEPT
                       ![p] = Append(@, [lc |-> r.f.lc, c |-> r.f.c, snAfter |-> r.s.sn])]
  /\ aead' = [aead EXCEPT ![p] = @ + 2]
  /\ UNCHANGED <<rx, done, handshakeVars_but_ns, invoiceVars>>

DecryptLength(q) ==
  /\ rx[q] = "length"
  /\ flight[Other(q)] # <<>>
  /\ LET r == decryptLength(ns[q], Head(flight[Other(q)]).lc) IN
       /\ ns' = [ns EXCEPT ![q] = r.s]
       /\ rx' = [rx EXCEPT ![q] = IF r.e = "none" THEN "body" ELSE "failed"]
  /\ UNCHANGED <<flight, aead, done, handshakeVars_but_ns, invoiceVars>>

DecryptMessage(q) ==
  /\ rx[q] = "body"
  /\ LET f == Head(flight[Other(q)])
         r == decryptMessage(ns[q], f.c)
     IN  /\ ns' = [ns EXCEPT ![q] = r.s]
         /\ rx' = [rx EXCEPT ![q] = IF r.e = "none" THEN "length" ELSE "failed"]
         /\ done' = [done EXCEPT ![q] = IF r.e = "none"
                                         THEN [frames |-> @.frames + 1, snAfter |-> f.snAfter]
                                         ELSE @]
  /\ flight' = [flight EXCEPT ![Other(q)] = Tail(@)]
  /\ UNCHANGED <<aead, handshakeVars_but_ns, invoiceVars>>

NextTransport ==
  \/ \E p \in Peers : EncryptMessage(p)
  \/ \E q \in Peers : DecryptLength(q)
  \/ \E q \in Peers : DecryptMessage(q)

SpecTransport == InitTransport /\ [][NextTransport]_vars

----------------------------------------------------------------------------
(* Claims about the transport framing                                      *)

\* the number of rotations that produced a traffic key
RECURSIVE KeyGeneration(_)
KeyGeneration(k) == IF k[4] = Nil THEN 0 ELSE 1 + KeyGeneration(k[4])

\* C2: per direction, with the frames delivered in order and decryptLength
\* called before decryptMessage for each frame, after the receiver has
\* processed k frames its rn equals the sender's sn after encrypting those
\* k frames, also across the reset at 1000.
C2_NoncesAligned ==
  \A q \in Peers :
    /\ rx[q] # "failed"
    /\ (rx[q] = "length" /\ done[q].frames > 0) =>
         /\ ns[q].rn = done[q].snAfter
         /\ ns[q].rn = (2 * done[q].frames) % 1000

C2_Witness ==
  \E q \in Peers :
    /\ rx[q] = "length" /\ done[q].frames = 501
    /\ ns[q].rn = 2 /\ done[q].snAfter = 2
    /\ KeyGeneration(ns[q].rk) = 1

\* C3: after n send-side AEAD operations made by encryptMessage calls on a
\* fresh Ready state, sk has been rotated floor(n / 1000) times and sn is
\* n mod 1000, never 1000 or more.
C3_RotationCount ==
  \A p \in Peers :
    /\ KeyGeneration(ns[p].sk) = aead[p] \div 1000
    /\ ns[p].sn = aead[p] % 1000
    /\ ns[p].sn < 1000

C3_Witness ==
  \E p \in Peers :
    aead[p] = 1000 /\ KeyGeneration(ns[p].sk) = 1 /\ ns[p].sn = 0

\* C4: in every frame encryptMessage produced, the length prefix and the
\* body are encrypted under the same sk, the body with the nonce counter
\* one greater than the length prefix: no rotation falls between the two.
C4_FrameUnderOneKey ==
  \A p \in Peers : \A i \in 1..Len(flight[p]) :
    LET f == flight[p][i] IN
    /\ f.lc[1] = "ct" /\ f.c[1] = "ct"
    /\ f.c[2] = f.lc[2]
    /\ f.c[3] = f.lc[3] + 1

C4_Witness ==
  \E p \in Peers : \E i \in 1..Len(flight[p]) :
    LET f == flight[p][i] IN
    /\ f.lc[3] = 998 /\ f.c[3] = 999
    /\ f.snAfter = 0 /\ KeyGeneration(ns[p].sk) = KeyGeneration(f.c[2]) + 1

----------------------------------------------------------------------------
(* The invoice codec: an Invoice is encoded and the string decoded, or a   *)
(* string from elsewhere is decoded; the Invoice decode returns is encoded *)
(* again.                                                                  *)

MaxFields  == 2   \* fields of an Invoice handed to encode
MaxEntries == 2   \* entries in the field stream of a string from elsewhere

SignKeys == {1, 2}

SeqsUpTo(S, n) == UNION {[1..m -> S] : m \in 0..n}

OneHop == [pubkey |-> PubBytes(2), short_channel_id |-> [i \in 1..8 |-> i],
           fee_base_msat |-> <<0, 0, 0, 1>>,
           fee_proportional_millionths |-> <<0, 0, 0, 20>>, cltv_expiry_delta |-> 3]

\* well-formed fields of every known type; the payee is the holder of key 1
FieldChoices ==
  {[type |-> PAYMENT_HASH, value |-> <<"buf", [i \in 1..32 |-> 1]>>],
   [type |-> ROUTE, value |-> <<"route", <<OneHop>> >>],
   [type |-> EXPIRY, value |-> <<"num", 3600>>],
   [type |-> FALLBACK_ADDRESS, value |-> <<"addr", P2PKH, [i \in 1..20 |-> 4]>>],
   [type |-> SHORT_DESC, value |-> <<"str", <<99, 111>> >>],
   [type |-> PAYEE_NODE, value |-> <<"buf", PubBytes(1)>>],
   [type |-> HASH_DESC, value |-> <<"buf", [i \in 1..32 |-> 3]>>],
   [type |-> MIN_FINAL_CLTV_EXPIRY, value |-> <<"num", 9>>]}

Timestamps == {<<"int", 1496314658>>, <<"wide", <<2, 0, 0, 0, 0, 0, 0>> >>}
Amounts    == {Null, BN(<<"2", "5">> \o Zeros(8))}
Networks   == {<<"b", "c">>}

\* the words of an entry: type, declared length, body
Entry(type, len, body) == UIntWords(type, 1) \o UIntWords(len, 2) \o body
BytesEntry(type, buf) == Entry(type, sizeofBytes(Len(buf)), convertWords(buf, 8, 5, TRUE))

\* entries of a string from elsewhere: padding, well-formed fields,
\* known types with a wrong length or version, an unknown type
EntryChoices ==
  {<<0>>,
   BytesEntry(PAYMENT_HASH, [i \in 1..32 |-> 1]),
   BytesEntry(PAYMENT_HASH, [i \in 1..33 |-> 1]),
   BytesEntry(PAYEE_NODE, PubBytes(1)),
   BytesEntry(SHORT_DESC, <<99, 111>>),
   Entry(EXPIRY, 2, <<3, 16>>),
   Entry(FALLBACK_ADDRESS, 3, <<5, 1, 2>>),
   Entry(FALLBACK_ADDRESS, 0, <<>>),
   Entry(2, 3, <<1, 2, 3>>),
   Entry(2, 4, <<1, 2, 3>>),      \* declared length one word more than the body
   Entry(2, 200, <<1>>)}          \* declared length past the end of the stream

RECURSIVE Flatten(_)
Flatten(ss) == IF ss = <<>> THEN <<>> ELSE Head(ss) \o Flatten(Tail(ss))

RawPrefixes == {<<"l", "n", "b", "c">>, <<"l", "n", "t", "b", "2", "5", "0", "0", "u">>}

\* who signed a string from elsewhere: a known key, or nobody known
RawSigners == {1, StrayKey}

\* the signature at the end of a string from elsewhere
RawSig == [i \in 1..64 |-> 200]
RawTail(flag) == convertWords(RawSig, 8, 5, TRUE) \o <<flag>>

InitInvoiceFromInvoice ==
  /\ ipc = "encode"
  /\ invoice \in [network : Networks, value : Amounts, timestamp : Timestamps,
                  fields : SeqsUpTo(FieldChoices, MaxFields)]
  /\ wire = NoWire
  /\ sigs = {}

\* the signature of a string from elsewhere was made by key k over the
\* words before the last 104, or over nothing that is known
InitInvoiceFromString ==
  /\ ipc = "decode"
  /\ invoice = NoInvoice
  /\ \E prefix \in RawPrefixes, es \in SeqsUpTo(EntryChoices, MaxEntries),
        k \in RawSigners :
       LET body == Digits32(1496314658) \o Flatten(es) IN
       /\ wire = [prefix |-> prefix, words |-> body \o RawTail(k % 4)]
       /\ sigs = IF k = StrayKey THEN {}
                 ELSE {[sig |-> RawSig, recovery |-> k % 4,
                        digest |-> Digest(prefix, convertWords(body, 5, 8, TRUE)),
                        key |-> k]}

IdleHandshake ==
  /\ ns = HonestRun(0, "s1", "e1", "s2", "e2").ns
  /\ pc = [p \in Peers |-> "Init"]
  /\ net = <<>>
  /\ err = [p \in Peers |-> "none"]
  /\ modified = FALSE
  /\ lastCall = NoCall
  /\ calls = 0

InitInvoice ==
  /\ InitInvoiceFromInvoice \/ InitInvoiceFromString
  /\ wordcursor = NewWordCursor(<<>>)
  /\ locals = NoLocals
  /\ fields = <<>>
  /\ unknownFields = <<>>
  /\ result = <<>>
  /\ reencoded = NoWire
  /\ iter = NoIter
  /\ IdleHandshake
  /\ IdleTransport

\* encode(invoice, privKey)
Encode ==
  /\ ipc = "encode"
  /\ \E k \in SignKeys :
       LET r == encode(sigs, invoice, k) IN
       /\ wire' = [prefix |-> r.prefix, words |-> r.words]
       /\ sigs' = r.table
       /\ ipc' = IF r.e = "none" THEN "decode" ELSE "error"
  /\ UNCHANGED <<invoice, wordcursor, locals, fields, unknownFields, result, reencoded,
                 iter, handshakeVars, transportVars>>

\* decode(invoice) up to the while loop
DecodeStart ==
  /\ ipc = "decode"
  /\ LET pp == parsePrefix(wire.prefix)
         rt == readUIntBE(NewWordCursor(wire.words), TimestampWords)
     IN  IF pp.e # "none"
         THEN /\ ipc' = "error"
              /\ UNCHANGED <<wordcursor, locals>>
         ELSE /\ ipc' = "fields"
              /\ wordcursor' = rt.cur
              /\ locals' = [network |-> pp.network, value |-> pp.value,
                            timestamp |-> <<"int", rt.val>>]
  /\ UNCHANGED <<invoice, wire, fields, unknownFields, result, reencoded, sigs, iter,
                 handshakeVars, transportVars>>

\* one iteration of the while loop of decode
DecodeField ==
  /\ ipc = "fields"
  /\ wordsRemaining(wordcursor) > SignatureTail
  /\ LET d == DecodeEntry(wordcursor)
         datum == [type |-> d.type, value |-> d.value]
     IN  /\ wordcursor' = d.cur
         /\ fields' = IF d.to = "fields" THEN Append(fields, datum) ELSE fields
         /\ unknownFields' = IF d.to = "unknownFields" THEN Append(unknownFields, datum)
                             ELSE unknownFields
         /\ ipc' = IF d.to = "error" THEN "error" ELSE "fields"
         /\ iter' = [n |-> iter.n + 1, start |-> wordcursor.position, type |-> d.type,
                     len |-> d.len, end |-> d.cur.position, to |-> d.to,
                     order |-> IF d.to \in {"fields", "unknownFields"}
                               THEN Append(iter.order,
                                           [to |-> d.to, type |-> d.type,
                                            words |-> Slice(wordcursor.words,
                                                            wordcursor.position,
                                                            d.cur.position)])
                               ELSE iter.order]
  /\ UNCHANGED <<invoice, wire, locals, result, reencoded, sigs, handshakeVars, transportVars>>

\* decode(invoice) after the while loop
DecodeFinish ==
  /\ ipc = "fields"
  /\ wordsRemaining(wordcursor) <= SignatureTail
  /\ LET d == DecodeTail(sigs, wire.prefix, wordcursor, locals, fields, unknownFields) IN
       /\ wordcursor' = d.cur
       /\ result' = d.invoice
       /\ ipc' = IF d.e = "none" THEN "decoded" ELSE "error"
  /\ UNCHANGED <<invoice, wire, locals, fields, unknownFields, reencoded, sigs, iter,
                 handshakeVars, transportVars>>

\* encode(decode(invoice), privKey)
ReEncode ==
  /\ ipc = "decoded"
  /\ \E k \in SignKeys :
       LET r == encode(sigs, result[1], k) IN
       /\ reencoded' = [prefix |-> r.prefix, words |-> r.words]
       /\ sigs' = r.table
       /\ ipc' = IF r.e = "none" THEN "reencoded" ELSE "error"
  /\ UNCHANGED <<invoice, wire, wordcursor, locals, fields, unknownFields, result, iter,
                 handshakeVars, transportVars>>

NextInvoice ==
  \/ Encode
  \/ DecodeStart
  \/ DecodeField
  \/ DecodeFinish
  \/ ReEncode

SpecInvoice == InitInvoice /\ [][NextInvoice]_vars

----------------------------------------------------------------------------
(* Invoice claims.                                                         *)

Decoded       == ipc \in {"decoded", "reencoded"}
FromEncode    == invoice # NoInvoice
FromElsewhere == invoice = NoInvoice

\* C7: every invoice decode returns has usedSigRecovery false when its
\* typed fields hold a payee_node entry and true when they hold none.
C7_UsedSigRecovery ==
  Decoded => (result[1].usedSigRecovery <=> PayeeNodeFields(result[1].fields) = {})

\* the entries (type word, two length words, body) between word pos and word end
RECURSIVE EntriesOf(_, _, _)
EntriesOf(words, pos, end) ==
  IF pos + 3 > end THEN <<>>
  ELSE LET len  == 32 * words[pos + 2] + words[pos + 3]
           stop == Min(pos + 3 + len, end)
       IN  <<Slice(words, pos, stop)>> \o EntriesOf(words, stop, end)

ReEncodedEntries ==
  EntriesOf(reencoded.words, TimestampWords, Len(reencoded.words) - SignatureTail)

\* C8: when a decoded string is encoded again, every entry of unknown type
\* of the string is emitted at the same place in the field order, with the
\* same words.
C8_UnknownEntriesSurvive ==
  (ipc = "reencoded" /\ FromElsewhere) =>
     \A i \in DOMAIN iter.order :
        iter.order[i].type \notin KnownTypes =>
           /\ i <= Len(ReEncodedEntries)
           /\ ReEncodedEntries[i] = iter.order[i].words

\* a number held as an integer and one held as digits are the same number
SameNumber(a, b) ==
  IF a[1] = b[1] THEN a[2] = b[2]
  ELSE LET int  == IF a[1] = "int" THEN a[2] ELSE b[2]
           wide == IF a[1] = "int" THEN b[2] ELSE a[2]
       IN  int >= 0 /\ Digits32(int) = Canonical(wide)

\* C9: decode(encode(inv, k)) returns the network, amount, timestamp and
\* typed fields of inv, in the same order, and the hashData it computes is
\* the digest encode signed.
C9_RoundTrip ==
  (Decoded /\ FromEncode) =>
     /\ result[1].network = invoice.network
     /\ result[1].value = invoice.value
     /\ SameNumber(result[1].timestamp, invoice.timestamp)
     /\ result[1].fields = invoice.fields
     /\ \E e \in sigs : /\ e.digest = result[1].hashData
                        /\ e.sig = result[1].signature.r \o result[1].signature.s

\* C10: an entry of type 0 in the field loop of decode moves the cursor on
\* by one word.
C10_PaddingOneWord ==
  (ipc = "fields" /\ iter.to = "padding") => iter.end = iter.start + 1

\* the cursor position when the field loop of decode ended
LoopEnd == IF iter.n = 0 THEN TimestampWords ELSE iter.end

\* C11: when decode returns, the field loop ended with the cursor at
\* words.length - 104, so that the signature and the recovery flag it read
\* are the final 104 words.
C11_SignatureIsTail ==
  Decoded => LoopEnd = Len(wire.words) - SignatureTail

\* the entry read by the last iteration fails its length or version constraint,
\* or has an unknown type
Malformed ==
  \/ iter.type \notin KnownTypes
  \/ iter.type \in {PAYMENT_HASH, HASH_DESC} /\ iter.len # HashWords
  \/ iter.type = PAYEE_NODE /\ iter.len # NodeWords
  \/ iter.type = FALLBACK_ADDRESS
       /\ Elem(wire.words, iter.start + 4) \notin {SEGWIT, P2PKH, P2SH}

\* the types of the entries of order that went to the list named to
RECURSIVE TypesTo(_, _)
TypesTo(order, to) ==
  IF order = <<>> THEN <<>>
  ELSE (IF Head(order).to = to THEN <<Head(order).type>> ELSE <<>>)
         \o TypesTo(Tail(order), to)

C15_NeverPastEnd ==
  ipc \in {"fields", "decoded"} => wordsRemaining(wordcursor) >= 0

\* the cursor position before the last read of the last iteration: after
\* the type word, the two length words and, in a fallback_address, the
\* version word
LastReadFrom ==
  iter.start + 3 + (IF iter.type = FALLBACK_ADDRESS THEN 1 ELSE 0)

\* C16: no read in the field loop of decode leaves the cursor position
\* lower than it was before the read.
C16_PositionMonotonic ==
  (iter.n > 0 /\ iter.type # 0) => iter.end >= LastReadFrom

----------------------------------------------------------------------------
(* parsePrefix on its own: a prefix is drawn and parsed.                   *)

MaxTail == 5   \* characters of a prefix after "ln"

PrefixAlphabet == {"b", "c", "2", "0", "u", "-"}
PrefixHeads    == {<<"l", "n">>, <<"l", "m">>}

InitPrefix ==
  /\ ipc = "prefix"
  /\ \E head \in PrefixHeads, tail \in SeqsUpTo(PrefixAlphabet, MaxTail) :
       /\ head = <<"l", "m">> => Len(tail) <= 1
       /\ wire = [prefix |-> head \o tail, words |-> <<>>]
  /\ invoice = NoInvoice
  /\ sigs = {}
  /\ wordcursor = NewWordCursor(<<>>)
  /\ locals = NoLocals
  /\ fields = <<>>
  /\ unknownFields = <<>>
  /\ result = <<>>
  /\ reencoded = NoWire
  /\ iter = NoIter
  /\ IdleHandshake
  /\ IdleTransport

\* parsePrefix(prefix)
ParsePrefix ==
  /\ ipc = "prefix"
  /\ LET pp == parsePrefix(wire.prefix) IN
       /\ ipc' = IF pp.e = "none" THEN "parsed" ELSE "error"
       /\ locals' = IF pp.e = "none"
                    THEN [locals EXCEPT !.network = pp.network, !.value = pp.value]
                    ELSE locals
  /\ UNCHANGED <<invoice, wire, wordcursor, fields, unknownFields, result, reencoded,
                 sigs, iter, handshakeVars, transportVars>>

NextPrefix == ParsePrefix

SpecPrefix == InitPrefix /\ [][NextPrefix]_vars

\* the number of leading characters of str that are in set
RECURSIVE RunOf(_, _)
RunOf(str, set) ==
  IF str # <<>> /\ Head(str) \in set THEN 1 + RunOf(Tail(str), set) ELSE 0

\* "ln", a run of lowercase letters, and then nothing or digits and one letter
WellShaped(prefix) ==
  /\ Len(prefix) >= 2 /\ SubSeq(prefix, 1, 2) = <<"l", "n">>
  /\ LET tail == SubSeq(prefix, 3, Len(prefix))
         rest == SubSeq(tail, RunOf(tail, LowerCase) + 1, Len(tail))
         nd   == RunOf(rest, DecDigits)
     IN  rest = <<>> \/ (nd > 0 /\ Len(rest) = nd + 1 /\ rest[nd + 1] \in LowerCase)

\* C13: parsePrefix returns only for a prefix that is "ln", the network
\* letters, and then nothing or a run of digits with exactly one letter
\* after it.
C13_OnlyWellShaped ==
  ipc = "parsed" => WellShaped(wire.prefix)

\* C14: parsePrefix returns a network among bc, tb, bcrt, sb and an amount
\* that is null or greater than zero.
C14_NetworkAndAmount ==
  ipc = "parsed" =>
     /\ locals.network \in {<<"b", "c">>, <<"t", "b">>, <<"b", "c", "r", "t">>, <<"s", "b">>}
     /\ locals.value # Null => \E i \in DOMAIN locals.value[2] : locals.value[2][i] # "0"

\* parsePrefix returned a network and an amount
C14_Witness ==
  ipc = "parsed" /\ locals.value # Null

----------------------------------------------------------------------------
(* The word cursor on its own: a value of n words is written with         *)
(* writeUIntBE(v, n) and read back with readUIntBE(n).  The value is held  *)
(* in invoice.timestamp as its n base-32 digits, the value read in         *)
(* locals.timestamp.                                                       *)

WordChoices == {0, 1, 2, 31}

InitCursor ==
  /\ ipc = "write"
  /\ \E n \in 1..TimestampWords :
       \E digits \in [1..n -> WordChoices] :
          invoice = [NoInvoice EXCEPT !.timestamp = <<"wide", digits>>]
  /\ wire = NoWire
  /\ sigs = {}
  /\ wordcursor = NewWordCursor(<<>>)
  /\ locals = NoLocals
  /\ fields = <<>>
  /\ unknownFields = <<>>
  /\ result = <<>>
  /\ reencoded = NoWire
  /\ iter = NoIter
  /\ IdleHandshake
  /\ IdleTransport

\* writer.writeUIntBE(v, n)
WriteUIntBE ==
  /\ ipc = "write"
  /\ wordcursor' = writeUIntBE(wordcursor, NumToInt32(invoice.timestamp),
                               Len(invoice.timestamp[2]))
  /\ ipc' = "read"
  /\ UNCHANGED <<invoice, wire, locals, fields, unknownFields, result, reencoded,
                 sigs, iter, handshakeVars, transportVars>>

\* wordcursor.readUIntBE(n) on the words written
ReadUIntBE ==
  /\ ipc = "read"
  /\ LET r == readUIntBE(wordcursor, Len(invoice.timestamp[2])) IN
       /\ wordcursor' = r.cur
       /\ locals' = [locals EXCEPT !.timestamp = <<"int", r.val>>]
  /\ ipc' = "read back"
  /\ UNCHANGED <<invoice, wire, fields, unknownFields, result, reencoded,
                 sigs, iter, handshakeVars, transportVars>>

NextCursor ==
  \/ WriteUIntBE
  \/ ReadUIntBE

SpecCursor == InitCursor /\ [][NextCursor]_vars

\* C17: writeUIntBE(v, n) with 0 <= v < 2^(5n) appends the n base-32 digits
\* of v, most significant first, and readUIntBE(n) over them returns v, not
\* a negative number.
C17_UIntRoundTrip ==
  /\ ipc \in {"read", "read back"} => wordcursor.words = invoice.timestamp[2]
  /\ ipc = "read back" =>
        /\ locals.timestamp[2] >= 0
        /\ SameNumber(locals.timestamp, invoice.timestamp)

----------------------------------------------------------------------------
(* The transport in both directions at once.  Each direction has already   *)
(* carried WarmFrames - 1 or WarmFrames frames, delivered in order, so     *)
(* that the first rotation of each direction is at hand.                   *)

WarmFrames      == 499   \* frames a direction has carried at the start
MaxDuplexFrames == 2     \* frames each peer sends after that

\* peer p encrypts one frame and the other peer decrypts it
OneFrame(st, p) ==
  LET q  == Other(p)
      e  == encryptMessage(st[p], <<"msg", 0>>)
      dl == decryptLength(st[q], e.f.lc)
      dm == decryptMessage(dl.s, e.f.c)
  IN  [st EXCEPT ![p] = e.s, ![q] = dm.s]

\* k frames from p to the other peer, one after the other: the first half
\* of them, then the rest (frames that change nothing are not repeated)
RECURSIVE FramesFrom(_, _, _)
FramesFrom(st, p, k) ==
  IF k = 0 THEN st
  ELSE IF k = 1 THEN OneFrame(st, p)
  ELSE LET half == FramesFrom(st, p, k \div 2)
       IN  IF half = st THEN st ELSE FramesFrom(half, p, k - (k \div 2))

InitDuplex ==
  /\ \E a, b \in {WarmFrames - 1, WarmFrames} :
       /\ ns = FramesFrom(FramesFrom(HonestRun(6, "s1", "e1", "s2", "e2").ns,
                                     "I", a), "R", b)
       /\ aead = [p \in Peers |-> IF p = "I" THEN 2 * a ELSE 2 * b]
       /\ done = [q \in Peers |->
                    IF q = "R" THEN [frames |-> a, snAfter |-> 2 * a]
                    ELSE [frames |-> b, snAfter |-> 2 * b]]
  /\ flight = [p \in Peers |-> <<>>]
  /\ rx = [p \in Peers |-> "length"]
  /\ pc = [p \in Peers |-> "Ready"]
  /\ net = <<>>
  /\ err = [p \in Peers |-> "none"]
  /\ modified = FALSE
  /\ lastCall = NoCall
  /\ calls = 0
  /\ IdleInvoice

\* encryptMessage(m) by either peer, whatever the other peer has sent
DuplexEncryptMessage(p) ==
  /\ aead[p] < 2 * (WarmFrames + MaxDuplexFrames)
  /\ Len(flight[p]) < MaxInFlight
  /\ \E m \in Payloads :
       LET r == encryptMessage(ns[p], m) IN
       /\ r.e = "none"
       /\ ns' = [ns EXCEPT ![p] = r.s]
       /\ flight' = [flight EXCEPT
                       ![p] = Append(@, [lc |-> r.f.lc, c |-> r.f.c, snAfter |-> r.s.sn])]
  /\ aead' = [aead EXCEPT ![p] = @ + 2]
  /\ UNCHANGED <<rx, done, handshakeVars_but_ns, invoiceVars>>

NextDuplex ==
  \/ \E p \in Peers : DuplexEncryptMessage(p)
  \/ \E q \in Peers : DecryptLength(q)
  \/ \E q \in Peers : DecryptMessage(q)

SpecDuplex == InitDuplex /\ [][NextDuplex]_vars

\* C18: with both directions in use, the key rk under which a peer
\* decrypts the next length prefix or body is the key sk under which the
\* sender encrypted it, also after rotations in both directions.
C18_DuplexKeysAgree ==
  \A q \in Peers :
    /\ rx[q] # "failed"
    /\ flight[Other(q)] # <<>> =>
         LET f == Head(flight[Other(q)]) IN
         ns[q].rk = (IF rx[q] = "body" THEN f.c[2] ELSE f.lc[2])

\* (generation, counter) g1, n1 comes before g2, n2
Before(g1, n1, g2, n2) == g1 < g2 \/ (g1 = g2 /\ n1 < n2)

\* the frame peer p has just put in flight
LastSent(p) == flight'[p][Len(flight'[p])]

\* C19: every encryptMessage uses two (sending-key generation, nonce
\* counter) pairs that come after every pair used before and before every
\* pair used later, so no pair is used twice; the counters are in 0..999
\* and the counter goes down only when the key generation goes up.
C19_NoNonceReuse ==
  [][\A p \in Peers :
       aead'[p] # aead[p] =>
         LET f  == LastSent(p)
             g0 == KeyGeneration(ns[p].sk)
             g1 == KeyGeneration(f.c[2])
             g2 == KeyGeneration(ns'[p].sk)
         IN  /\ f.lc[2] = ns[p].sk /\ f.lc[3] = ns[p].sn
             /\ Before(g0, f.lc[3], g1, f.c[3])
             /\ Before(g1, f.c[3], g2, ns'[p].sn)
             /\ f.lc[3] \in 0..999 /\ f.c[3] \in 0..999
             /\ f.c[3] < f.lc[3] => g1 = g0 + 1
             /\ ns'[p].sn < f.c[3] => g2 = g1 + 1
             /\ g1 = g0 => f.c[2] = f.lc[2]
             /\ g2 = g1 => ns'[p].sk = f.c[2]]_vars

\* a peer has sent a frame under the key of the first rotation
C19_Witness ==
  \E p \in Peers :
    /\ aead[p] = 1002 /\ KeyGeneration(ns[p].sk) = 1 /\ ns[p].sn = 2
    /\ flight[p] # <<>>

\* both sides have produced or consumed the same act
BothAt(ph) == pc["I"] = ph /\ pc["R"] = ph

\* C20: in a handshake run in order with unmodified messages, once an act
\* has been produced by one side and consumed by the other the two sides
\* hold the same ck; after Act 1 and Act 2 they hold the same h, and after
\* Act 3 the responder's rs is the initiator's lp.
C20_HandshakeInStep ==
  ~modified =>
     /\ \A ph \in {"AfterAct1", "AfterAct2", "Ready"} :
          BothAt(ph) => Def(ns["I"].ck) /\ ns["I"].ck = ns["R"].ck
     /\ \A ph \in {"AfterAct1", "AfterAct2"} :
          BothAt(ph) => Def(ns["I"].h) /\ ns["I"].h = ns["R"].h
     /\ BothAt("Ready") => ns["R"].rs = ns["I"].lp

\* Act 2 has been consumed by the initiator of an unmodified handshake
C20_Witness ==
  /\ BothAt("AfterAct2") /\ ~modified
  /\ lastCall.op = "initiatorAct2" /\ lastCall.e = "none"

----------------------------------------------------------------------------
(* _encodeData on one field: a datum is drawn and written.  The datum is   *)
(* the only field of invoice, the writer is wordcursor.                    *)

MaxBytes == 20     \* the byte payloads 0..MaxBytes are drawn
MaxHops  == 2      \* the routes of 0..MaxHops hops are drawn
SlotWords == 1024  \* the word counts below 1024 fit the 2-word length slot

\* one datum of every kind; among the sizes are the least payloads whose
\* word count does not fit the slot, and the ones just below them
DatumChoices ==
  LET BigBytes == {(SlotWords * 5) \div 8 - 1, (SlotWords * 5) \div 8}
      BigHops  == {(SlotWords * 5) \div (HopBytes * 8),
                   (SlotWords * 5) \div (HopBytes * 8) + 1}
  IN
  {[type |-> t, value |-> <<"buf", [i \in 1..n |-> 7]>>] :
      t \in {PAYMENT_HASH, PAYEE_NODE, HASH_DESC, 2}, n \in (0..MaxBytes) \cup BigBytes}
  \cup {[type |-> SHORT_DESC, value |-> <<"str", [i \in 1..n |-> 99]>>] :
           n \in (0..MaxBytes) \cup BigBytes}
  \cup {[type |-> ROUTE, value |-> <<"route", [i \in 1..n |-> OneHop]>>] :
           n \in (0..MaxHops) \cup BigHops}
  \cup {[type |-> t, value |-> <<"num", n>>] :
           t \in {EXPIRY, MIN_FINAL_CLTV_EXPIRY}, n \in {0, 1, 9, 3600}}
  \cup {[type |-> FALLBACK_ADDRESS, value |-> <<"addr", v, [i \in 1..n |-> 4]>>] :
           v \in {SEGWIT, P2PKH, P2SH}, n \in {20, 32}}

InitField ==
  /\ ipc = "field"
  /\ \E datum \in DatumChoices : invoice = [NoInvoice EXCEPT !.fields = <<datum>>]
  /\ wire = NoWire
  /\ sigs = {}
  /\ wordcursor = NewWordCursor(<<>>)
  /\ locals = NoLocals
  /\ fields = <<>>
  /\ unknownFields = <<>>
  /\ result = <<>>
  /\ reencoded = NoWire
  /\ iter = NoIter
  /\ IdleHandshake
  /\ IdleTransport

\* _encodeData(invoice, writer)
EncodeField ==
  /\ ipc = "field"
  /\ LET r == _encodeData(invoice, wordcursor) IN
       /\ wordcursor' = r.w
       /\ ipc' = IF r.e = "none" THEN "written" ELSE "error"
  /\ UNCHANGED <<invoice, wire, locals, fields, unknownFields, result, reencoded,
                 sigs, iter, handshakeVars, transportVars>>

NextField == EncodeField

SpecField == InitField /\ [][NextField]_vars

\* C21: a field written by _encodeData is its type word, two length words
\* and a body of exactly as many words as the length words say.
C21_LengthSlotIsBodyLength ==
  ipc = "written" =>
     LET w == wordcursor.words IN
     /\ Len(w) >= 3
     /\ w[1] = invoice.fields[1].type
     /\ 32 * w[2] + w[3] = Len(w) - 3

\* C22: every iteration of the field loop of decode leaves fewer words
\* remaining than it found, so the loop, which runs only while more than
\* 104 words remain, ends.
C22_LoopProgress ==
  [][(ipc = "fields" /\ wordsRemaining(wordcursor) > SignatureTail)
        => wordsRemaining(wordcursor') < wordsRemaining(wordcursor)]_vars

\* the loop has ended after an iteration that read a fallback_address of
\* declared length 0
C22_Witness ==
  /\ ipc = "fields" /\ wordsRemaining(wordcursor) <= SignatureTail
  /\ iter.n > 0 /\ iter.type = FALLBACK_ADDRESS /\ iter.len = 0
  /\ iter.end > iter.start

====
